---- MODULE Spec2Model ----
(***************************************************************************)
(* Model of app.py: the /encode request handler of the per-shot encoder    *)
(* (detect_scenes, encode_scene, concatenate_scenes, calculate_metrics and *)
(* the failure path of encode) over a shared file system.                  *)
(*                                                                         *)
(* Times are counted in half seconds (7.5 s = 15), percentages in          *)
(* hundredths of a percent (66.67 % = 6667) and metric values in           *)
(* ten-thousandths (35.1234 dB = 351234), so that the comparisons and the  *)
(* rounding of the source are computed on integers.                        *)
(***************************************************************************)
EXTENDS Integers, Sequences, FiniteSets, TLC

\* ------------------------------------------------------------------ bounds
MaxRuns == 2
MaxScenes == 2
MaxSize == 4

\* Python's None, for an interval end, a duration, a metric.
None == -1

\* Request handler threads.  Spec serves the requests one at a time.
Workers == {1, 2}
SeqWorkers == {1}
RunIds == 1..MaxRuns

HalfSeconds(s) == 2 * s

\* Values of the form field 'crf' (any integer passes int(crf)).
BaseCrfs == {10, 23}
\* Scene durations the detector may report, in half seconds: 3 s and 12 s.
Durations == {6, 24}
\* Byte counts os.path.getsize may report.
FileSizes == {1, 3}

\* ------------------------------------------------------------------ paths
InputPath(id) == [dir |-> "uploads", name |-> "input", n |-> id]
OutputPath(id) == [dir |-> "outputs", name |-> "compressed", n |-> id]
ScenePath(n) == [dir |-> "scenes", name |-> "scene", n |-> n]
ConcatList == [dir |-> "scenes", name |-> "concat_list", n |-> 0]

Paths ==
    {InputPath(id) : id \in RunIds} \cup {OutputPath(id) : id \in RunIds}
        \cup {ScenePath(n) : n \in 0..(MaxScenes - 1)} \cup {ConcatList}

NoFile == [kind |-> "none"]
Exists(f, p) == f[p] # NoFile

\* ------------------------------------------------------------------ pure parts
Max(a, b) == IF a > b THEN a ELSE b
Min(a, b) == IF a < b THEN a ELSE b

\* Variant of SceneCrf with the thresholds compared by >= in place of >.
SceneCrfGe(start, end, base_crf) ==
    IF end = None
        THEN base_crf
        ELSE LET duration == end - start
                 adj == IF duration >= HalfSeconds(10) THEN base_crf + 4
                        ELSE IF duration >= HalfSeconds(5) THEN base_crf + 2
                        ELSE base_crf - 2
             IN  Max(18, Min(35, adj))

\* encode_scene, lines 40-59: the quality of one segment.
SceneCrf(start, end, base_crf) ==
    IF end = None
        THEN base_crf
        ELSE LET duration == end - start
                 adj == IF duration > HalfSeconds(10) THEN base_crf + 4
                        ELSE IF duration > HalfSeconds(5) THEN base_crf + 2
                        ELSE base_crf - 2
             IN  Max(18, Min(35, adj))

SceneDuration(start, end) == IF end = None THEN None ELSE end - start

\* detect_scenes, line 36: the scene list as (start, end) pairs, in order.
RECURSIVE IntervalsFrom(_, _)
IntervalsFrom(t, durs) ==
    IF durs = <<>>
        THEN <<>>
        ELSE <<[start |-> t, end |-> t + Head(durs)]>>
                 \o IntervalsFrom(t + Head(durs), Tail(durs))

DurationLists == UNION {[1..n -> Durations] : n \in 0..MaxScenes}
SceneLists == {IntervalsFrom(0, d) : d \in DurationLists}

\* Variant of ScenesOrWhole without the fallback.
ScenesOrWholeNoFallback(detected_scenes) == detected_scenes

\* encode, lines 192-193: the fallback for an empty scene list.
ScenesOrWhole(detected_scenes) ==
    IF detected_scenes = <<>>
        THEN <<[start |-> 0, end |-> None]>>
        ELSE detected_scenes

\* Nearest integer to n / d (d > 0), ties to the even neighbour: round().
RoundDiv(n, d) ==
    LET q == n \div d
        r == n - q * d
    IN  IF 2 * r < d THEN q
        ELSE IF 2 * r > d THEN q + 1
        ELSE IF q % 2 = 0 THEN q ELSE q + 1

\* Variant of Savings that reports the size ratio.
SavingsRatio(orig_size, comp_size) ==
    IF orig_size > 0
        THEN [num |-> comp_size * 100, den |-> orig_size]
        ELSE [num |-> 0, den |-> 1]

\* encode, line 225: the savings as the fraction num/den of a percent.
Savings(orig_size, comp_size) ==
    IF orig_size > 0
        THEN [num |-> (orig_size - comp_size) * 100, den |-> orig_size]
        ELSE [num |-> 0, den |-> 1]

\* encode, line 236: round(savings, 2), in hundredths of a percent.
RoundSavings(s) == RoundDiv(s.num * 100, s.den)

\* encode, lines 237-238: round(psnr, 2) and round(ssim, 3) of a value in
\* ten-thousandths; a falsy value (None, 0.0) becomes None.
RoundMetric(v, unit) == IF v = None \/ v = 0 THEN None ELSE RoundDiv(v, unit) * unit

\* What one comparison invocation of the transcoder does: subprocess.run
\* raises (TimeoutExpired, OSError), or it returns a diagnostic text in which
\* the labeled field is missing (no line on which the pattern matches), is a
\* token of dots that float() rejects, or is a number.
RaiseOutcome == [kind |-> "raise", field |-> "missing", value |-> None]
MissingField == [kind |-> "text", field |-> "missing", value |-> None]
DotsField == [kind |-> "text", field |-> "dots", value |-> None]
NumberField(v) == [kind |-> "text", field |-> "number", value |-> v]

\* Parsed values the diagnostic text may carry, in ten-thousandths.
MetricValues == {0, 9876}
MetricOutcomes ==
    {RaiseOutcome, MissingField, DotsField} \cup {NumberField(v) : v \in MetricValues}
\* The outcomes drawn where whole requests are followed.
SomeOutcomes == {RaiseOutcome, NumberField(9876)}

\* calculate_metrics, lines 126-134 and 138-146: one invocation and its scan.
\* raises: an exception leaves the try block; value: the parsed field.
ScanMetric(o) ==
    IF o.kind = "raise" \/ o.field = "dots"
        THEN [raises |-> TRUE, value |-> None]
        ELSE IF o.field = "number"
            THEN [raises |-> FALSE, value |-> o.value]
            ELSE [raises |-> FALSE, value |-> None]

\* ------------------------------------------------------------------ state
VARIABLES
    fs,           \* the folders uploads, outputs and scenes: path -> content
    nextId,       \* the next fresh uuid4 (lines 177, 185)
    pc,           \* where each handler thread stands in encode
    run,          \* the uuid of the request a thread serves
    crf_form,     \* request.form 'crf' (line 180)
    per_shot,     \* use_per_shot (line 183)
    detected,     \* what detect_scenes returned (line 191)
    scenes,       \* scenes, after the fallback of lines 192-193
    scene_files,  \* scene_files (lines 195, 199)
    crf,          \* encode_scene's crf (lines 43, 59)
    removed,      \* how many of scene_files the loop of line 203 has removed
    orig_size,    \* orig_size (line 223)
    comp_size,    \* comp_size (line 224)
    savings,      \* savings (line 225)
    diag,         \* what the two comparison invocations do for this request
    psnr,         \* calculate_metrics' psnr
    ssim,         \* calculate_metrics' ssim
    error,        \* the exception that is propagating, "" if none
    response,     \* what the handler returned
    calls         \* the transcoder invocations of the request, in order

vars ==
    <<fs, nextId, pc, run, crf_form, per_shot, detected, scenes, scene_files, crf,
      removed, orig_size, comp_size, savings, diag, psnr, ssim, error, response, calls>>

NoResponse == [status |-> 0]
NoDiag == [psnr |-> MissingField, ssim |-> MissingField]

UploadFile(id) == [kind |-> "upload", run |-> id]
Segment(id, n) == [kind |-> "segment", run |-> id, idx |-> n, ok |-> TRUE]
PartialSegment(id, n) == [kind |-> "segment", run |-> id, idx |-> n, ok |-> FALSE]
Manifest(id, entries) == [kind |-> "manifest", run |-> id, entries |-> entries]
Video(id, parts) == [kind |-> "video", run |-> id, parts |-> parts, ok |-> TRUE]
PartialVideo(id) == [kind |-> "video", run |-> id, parts |-> <<>>, ok |-> FALSE]

\* A transcoder run that exits nonzero stopped before it opened its output
\* (the file at p is as it was) or after (a partial file is at p).
FailedWrites(f, p, partial) == {f, [f EXCEPT ![p] = partial]}

Init ==
    /\ fs = [p \in Paths |-> NoFile]
    /\ nextId = 1
    /\ pc = [w \in Workers |-> "idle"]
    /\ run = [w \in Workers |-> 0]
    /\ crf_form = [w \in Workers |-> 23]
    /\ per_shot = [w \in Workers |-> FALSE]
    /\ detected = [w \in Workers |-> <<>>]
    /\ scenes = [w \in Workers |-> <<>>]
    /\ scene_files = [w \in Workers |-> <<>>]
    /\ crf = [w \in Workers |-> 0]
    /\ removed = [w \in Workers |-> 0]
    /\ orig_size = [w \in Workers |-> 0]
    /\ comp_size = [w \in Workers |-> 0]
    /\ savings = [w \in Workers |-> Savings(0, 0)]
    /\ diag = [w \in Workers |-> NoDiag]
    /\ psnr = [w \in Workers |-> None]
    /\ ssim = [w \in Workers |-> None]
    /\ error = [w \in Workers |-> ""]
    /\ response = [w \in Workers |-> NoResponse]
    /\ calls = [w \in Workers |-> <<>>]

\* ------------------------------------------------------------------ encode
\* Variant of PathFor that takes the per-scene path whatever the flag.
PathForAlwaysPerShot(flag) == "detect"

\* encode, lines 189 and 209: the path the per_shot flag selects.
PathFor(flag) == IF flag THEN "detect" ELSE "whole"

\* Lines 167-189: a request arrives; the upload is saved under a fresh uuid.
Upload(w, crfs) ==
    /\ pc[w] \in {"idle", "done"}
    /\ nextId <= MaxRuns
    /\ \E q \in crfs, flag \in BOOLEAN :
        /\ crf_form' = [crf_form EXCEPT ![w] = q]
        /\ per_shot' = [per_shot EXCEPT ![w] = flag]
        /\ pc' = [pc EXCEPT ![w] = PathFor(flag)]
    /\ run' = [run EXCEPT ![w] = nextId]
    /\ nextId' = nextId + 1
    /\ fs' = [fs EXCEPT ![InputPath(nextId)] = UploadFile(nextId)]
    /\ detected' = [detected EXCEPT ![w] = <<>>]
    /\ scenes' = [scenes EXCEPT ![w] = <<>>]
    /\ scene_files' = [scene_files EXCEPT ![w] = <<>>]
    /\ crf' = [crf EXCEPT ![w] = 0]
    /\ removed' = [removed EXCEPT ![w] = 0]
    /\ orig_size' = [orig_size EXCEPT ![w] = 0]
    /\ comp_size' = [comp_size EXCEPT ![w] = 0]
    /\ savings' = [savings EXCEPT ![w] = Savings(0, 0)]
    /\ diag' = [diag EXCEPT ![w] = NoDiag]
    /\ psnr' = [psnr EXCEPT ![w] = None]
    /\ ssim' = [ssim EXCEPT ![w] = None]
    /\ error' = [error EXCEPT ![w] = ""]
    /\ response' = [response EXCEPT ![w] = NoResponse]
    /\ calls' = [calls EXCEPT ![w] = <<>>]

\* Lines 191-195: detect_scenes returns a scene list or raises; an empty list
\* is replaced by the whole file.
Detect(w, lists) ==
    /\ pc[w] = "detect"
    /\ \E readable \in BOOLEAN, found \in lists :
        IF readable
            THEN /\ detected' = [detected EXCEPT ![w] = found]
                 /\ scenes' = [scenes EXCEPT ![w] = ScenesOrWhole(found)]
                 /\ pc' = [pc EXCEPT ![w] =
                              IF ScenesOrWhole(found) = <<>> THEN "manifest" ELSE "accurate"]
                 /\ error' = error
            ELSE /\ pc' = [pc EXCEPT ![w] = "except"]
                 /\ error' = [error EXCEPT ![w] = "detect_scenes"]
                 /\ UNCHANGED <<detected, scenes>>
    /\ UNCHANGED <<fs, nextId, run, crf_form, per_shot, scene_files, crf, removed,
                   orig_size, comp_size, savings, diag, psnr, ssim, response, calls>>

\* The scene the loop of line 196 is at, and its output path (line 197).
SceneIndex(w) == Len(scene_files[w])
CurrentScene(w) == scenes[w][SceneIndex(w) + 1]
SceneOut(w) == ScenePath(SceneIndex(w))

\* Line 199 and the loop test of line 196 after encode_scene has returned.
AfterScene(w) ==
    /\ scene_files' = [scene_files EXCEPT ![w] = Append(@, SceneOut(w))]
    /\ pc' = [pc EXCEPT ![w] =
                IF SceneIndex(w) + 1 < Len(scenes[w]) THEN "accurate" ELSE "manifest"]

EncodeCall(w, seek, quality, ok) ==
    [tool |-> "encode", seek |-> seek, ss |-> CurrentScene(w).start,
     t |-> SceneDuration(CurrentScene(w).start, CurrentScene(w).end),
     crf |-> quality, out |-> SceneOut(w), ok |-> ok]

\* Variant of FastSeekRaises that raises after a successful fallback too.
FastSeekRaisesAlways(ok) == TRUE

\* Variant of FastSeekRaises that swallows the second failure.
FastSeekRaisesNever(ok) == FALSE

\* encode_scene, lines 93-101: a nonzero exit of the fallback (check=True)
\* raises CalledProcessError to the caller, and a zero exit returns.
FastSeekRaises(ok) == ~ok

\* encode_scene, lines 40-76: the quality is selected and the accurate-seek
\* command runs; a nonzero exit leads to the fallback.
AccurateSeek(w) ==
    /\ pc[w] = "accurate"
    /\ LET quality == SceneCrf(CurrentScene(w).start, CurrentScene(w).end, crf_form[w])
       IN  /\ crf' = [crf EXCEPT ![w] = quality]
           /\ \E ok \in BOOLEAN :
               /\ calls' = [calls EXCEPT ![w] = Append(@, EncodeCall(w, "accurate", quality, ok))]
               /\ IF ok
                     THEN /\ fs' = [fs EXCEPT ![SceneOut(w)] = Segment(run[w], SceneIndex(w))]
                          /\ AfterScene(w)
                     ELSE /\ fs' \in FailedWrites(fs, SceneOut(w),
                                                  PartialSegment(run[w], SceneIndex(w)))
                          /\ pc' = [pc EXCEPT ![w] = "fast"]
                          /\ UNCHANGED scene_files
    /\ UNCHANGED <<nextId, run, crf_form, per_shot, detected, scenes, removed, orig_size,
                   comp_size, savings, diag, psnr, ssim, error, response>>

\* encode_scene, lines 77-101: the fast-seek command runs with the same
\* quality; a second nonzero exit is raised (the bare raise of line 101 is
\* inside the handler of e2 and re-raises e2).
FastSeek(w) ==
    /\ pc[w] = "fast"
    /\ \E ok \in BOOLEAN :
        /\ calls' = [calls EXCEPT ![w] = Append(@, EncodeCall(w, "fast", crf[w], ok))]
        /\ IF ok
              THEN fs' = [fs EXCEPT ![SceneOut(w)] = Segment(run[w], SceneIndex(w))]
              ELSE fs' \in FailedWrites(fs, SceneOut(w),
                                        PartialSegment(run[w], SceneIndex(w)))
        /\ IF ~FastSeekRaises(ok)
              THEN /\ AfterScene(w)
                   /\ error' = error
              ELSE /\ pc' = [pc EXCEPT ![w] = "except"]
                   /\ error' = [error EXCEPT ![w] = "encode_scene:fast_seek"]
                   /\ UNCHANGED scene_files
    /\ UNCHANGED <<nextId, run, crf_form, per_shot, detected, scenes, crf, removed,
                   orig_size, comp_size, savings, diag, psnr, ssim, response>>

\* Variant of ManifestEntries that lists the files last first.
ManifestEntriesReversed(files) == [n \in 1..Len(files) |-> files[Len(files) + 1 - n]]

\* concatenate_scenes, lines 106-107: the lines of the manifest.
ManifestEntries(files) == files

\* concatenate_scenes, lines 104-107: the manifest is written, one path per
\* line, in the order of scene_files.
WriteManifest(w) ==
    /\ pc[w] = "manifest"
    /\ fs' = [fs EXCEPT ![ConcatList] = Manifest(run[w], ManifestEntries(scene_files[w]))]
    /\ pc' = [pc EXCEPT ![w] = "concat"]
    /\ UNCHANGED <<nextId, run, crf_form, per_shot, detected, scenes, scene_files, crf,
                   removed, orig_size, comp_size, savings, diag, psnr, ssim, error,
                   response, calls>>

\* The concat demuxer can succeed only if the manifest and every file it
\* lists are there and are complete segments.
Concatenable(f) ==
    /\ Exists(f, ConcatList)
    /\ \A n \in 1..Len(f[ConcatList].entries) :
        /\ Exists(f, f[ConcatList].entries[n])
        /\ f[f[ConcatList].entries[n]].ok

ListedEntries(f) == IF Exists(f, ConcatList) THEN f[ConcatList].entries ELSE <<>>

\* concatenate_scenes, lines 108-118: the transcoder joins what the manifest
\* lists into output_path, or exits nonzero and the failure is raised.
Concat(w) ==
    /\ pc[w] = "concat"
    /\ \E ok \in BOOLEAN :
        /\ ok => Concatenable(fs)
        /\ calls' = [calls EXCEPT ![w] =
                        Append(@, [tool |-> "concat", list |-> ListedEntries(fs),
                                   out |-> OutputPath(run[w]), ok |-> ok])]
        /\ IF ok
              THEN /\ fs' = [fs EXCEPT ![OutputPath(run[w])] =
                                Video(run[w], [n \in 1..Len(ListedEntries(fs)) |->
                                                   fs[ListedEntries(fs)[n]]])]
                   /\ pc' = [pc EXCEPT ![w] = "remove"]
                   /\ error' = error
              ELSE /\ fs' \in FailedWrites(fs, OutputPath(run[w]), PartialVideo(run[w]))
                   /\ pc' = [pc EXCEPT ![w] = "except"]
                   /\ error' = [error EXCEPT ![w] = "concatenate_scenes"]
    /\ UNCHANGED <<nextId, run, crf_form, per_shot, detected, scenes, scene_files, crf,
                   removed, orig_size, comp_size, savings, diag, psnr, ssim, response>>

\* Line 203: the loop ends when every entry of scene_files has been visited.
RemoveLoopDone(n, files) == n >= Len(files)

\* Lines 203-204: one os.remove of the loop; a missing file raises.
RemoveScene(w) ==
    /\ pc[w] = "remove"
    /\ LET sf == scene_files[w][removed[w] + 1]
       IN  IF Exists(fs, sf)
               THEN /\ fs' = [fs EXCEPT ![sf] = NoFile]
                    /\ removed' = [removed EXCEPT ![w] = @ + 1]
                    /\ pc' = [pc EXCEPT ![w] =
                                 IF RemoveLoopDone(removed[w] + 1, scene_files[w])
                                     THEN "sizes" ELSE "remove"]
                    /\ error' = error
               ELSE /\ pc' = [pc EXCEPT ![w] = "except"]
                    /\ error' = [error EXCEPT ![w] = "os.remove"]
                    /\ UNCHANGED <<fs, removed>>
    /\ UNCHANGED <<nextId, run, crf_form, per_shot, detected, scenes, scene_files, crf,
                   orig_size, comp_size, savings, diag, psnr, ssim, response, calls>>

\* Lines 210-221: the whole-file encode with the form's crf as it came.
WholeFile(w) ==
    /\ pc[w] = "whole"
    /\ \E ok \in BOOLEAN :
        /\ calls' = [calls EXCEPT ![w] =
                        Append(@, [tool |-> "whole", crf |-> crf_form[w],
                                   out |-> OutputPath(run[w]), ok |-> ok])]
        /\ IF ok
              THEN /\ fs' = [fs EXCEPT ![OutputPath(run[w])] = Video(run[w], <<>>)]
                   /\ pc' = [pc EXCEPT ![w] = "sizes"]
                   /\ error' = error
              ELSE /\ fs' \in FailedWrites(fs, OutputPath(run[w]), PartialVideo(run[w]))
                   /\ pc' = [pc EXCEPT ![w] = "except"]
                   /\ error' = [error EXCEPT ![w] = "whole_file"]
    /\ UNCHANGED <<nextId, run, crf_form, per_shot, detected, scenes, scene_files, crf,
                   removed, orig_size, comp_size, savings, diag, psnr, ssim, response>>

\* Lines 223-225: the two sizes and the savings; getsize raises on a missing
\* file.
GetSizes(w, sizes) ==
    /\ pc[w] = "sizes"
    /\ IF Exists(fs, InputPath(run[w])) /\ Exists(fs, OutputPath(run[w]))
          THEN \E o \in sizes, c \in sizes :
                  /\ orig_size' = [orig_size EXCEPT ![w] = o]
                  /\ comp_size' = [comp_size EXCEPT ![w] = c]
                  /\ savings' = [savings EXCEPT ![w] = Savings(o, c)]
                  /\ pc' = [pc EXCEPT ![w] = "psnr"]
                  /\ error' = error
          ELSE /\ pc' = [pc EXCEPT ![w] = "except"]
               /\ error' = [error EXCEPT ![w] = "os.path.getsize"]
               /\ UNCHANGED <<orig_size, comp_size, savings>>
    /\ UNCHANGED <<fs, nextId, run, crf_form, per_shot, detected, scenes, scene_files,
                   crf, removed, diag, psnr, ssim, response, calls>>

\* Variant of AfterMetricError in which the exception leaves the function.
AfterMetricErrorPropagates == "except"

\* calculate_metrics, lines 147-150: an exception anywhere in the try block
\* is printed and the function returns what it has.
AfterMetricError == "respond"

\* calculate_metrics, lines 122-134: the PSNR invocation and its scan.  What
\* the transcoder does on the two comparison commands of this request is
\* fixed here, before the first of them runs.
Psnr(w, outcomes) ==
    /\ pc[w] = "psnr"
    /\ \E d \in [psnr : outcomes, ssim : outcomes] :
        /\ diag' = [diag EXCEPT ![w] = d]
        /\ psnr' = [psnr EXCEPT ![w] = ScanMetric(d.psnr).value]
        /\ pc' = [pc EXCEPT ![w] =
                     IF ScanMetric(d.psnr).raises THEN AfterMetricError ELSE "ssim"]
    /\ ssim' = [ssim EXCEPT ![w] = None]
    /\ error' = [error EXCEPT ![w] = IF pc'[w] = "except" THEN "calculate_metrics" ELSE @]
    /\ calls' = [calls EXCEPT ![w] = Append(@, [tool |-> "psnr"])]
    /\ UNCHANGED <<fs, nextId, run, crf_form, per_shot, detected, scenes, scene_files,
                   crf, removed, orig_size, comp_size, savings, response>>

\* calculate_metrics, lines 136-146: the SSIM invocation and its scan.
Ssim(w) ==
    /\ pc[w] = "ssim"
    /\ ssim' = [ssim EXCEPT ![w] = ScanMetric(diag[w].ssim).value]
    /\ pc' = [pc EXCEPT ![w] =
                 IF ScanMetric(diag[w].ssim).raises THEN AfterMetricError ELSE "respond"]
    /\ error' = [error EXCEPT ![w] = IF pc'[w] = "except" THEN "calculate_metrics" ELSE @]
    /\ calls' = [calls EXCEPT ![w] = Append(@, [tool |-> "ssim"])]
    /\ UNCHANGED <<fs, nextId, run, crf_form, per_shot, detected, scenes, scene_files,
                   crf, removed, orig_size, comp_size, savings, diag, psnr, response>>

\* Lines 229-239: the result is returned.
Respond(w) ==
    /\ pc[w] = "respond"
    /\ response' = [response EXCEPT ![w] =
                       [status |-> 200,
                        original_size |-> orig_size[w],
                        compressed_size |-> comp_size[w],
                        savings_percent |-> RoundSavings(savings[w]),
                        psnr |-> RoundMetric(psnr[w], 100),
                        ssim |-> RoundMetric(ssim[w], 10)]]
    /\ pc' = [pc EXCEPT ![w] = "done"]
    /\ UNCHANGED <<fs, nextId, run, crf_form, per_shot, detected, scenes, scene_files,
                   crf, removed, orig_size, comp_size, savings, diag, psnr, ssim, error,
                   calls>>

\* Variant of CleanedUp that leaves the input copy.
CleanedUpNothing(f, id) == f

\* encode, lines 242-243: the files after the clean-up of the failure path.
CleanedUp(f, id) == [f EXCEPT ![InputPath(id)] = NoFile]

\* Lines 205-208, 217-221 and 241-246: the exception reaches the handler of
\* encode, which removes the input copy and answers 500.
Fail(w) ==
    /\ pc[w] = "except"
    /\ fs' = CleanedUp(fs, run[w])
    /\ response' = [response EXCEPT ![w] = [status |-> 500, error |-> error[w]]]
    /\ pc' = [pc EXCEPT ![w] = "done"]
    /\ UNCHANGED <<nextId, run, crf_form, per_shot, detected, scenes, scene_files, crf,
                   removed, orig_size, comp_size, savings, diag, psnr, ssim, error, calls>>

Step(w) ==
    \/ Upload(w, BaseCrfs)
    \/ Detect(w, SceneLists)
    \/ AccurateSeek(w)
    \/ FastSeek(w)
    \/ WriteManifest(w)
    \/ Concat(w)
    \/ RemoveScene(w)
    \/ WholeFile(w)
    \/ GetSizes(w, FileSizes)
    \/ Psnr(w, SomeOutcomes)
    \/ Ssim(w)
    \/ Respond(w)
    \/ Fail(w)

\* The requests are served one after the other by one thread.
Next == \E w \in SeqWorkers : Step(w)

Spec == Init /\ [][Next]_vars

\* encode_scene alone, for every scene of every list of up to two scenes: the
\* states in which the loop of line 196 is entered, over a wide range of
\* base qualities and durations (3, 5, 5.5, 7.5, 10, 10.5 and 12 s).
WideCrfs == 12..41
WideDurations == {6, 10, 11, 15, 20, 21, 24}
WideSceneLists ==
    {IntervalsFrom(0, d) : d \in UNION {[1..n -> WideDurations] : n \in 0..2}}

SceneInit ==
    /\ fs = [p \in Paths |-> IF p = InputPath(1) THEN UploadFile(1) ELSE NoFile]
    /\ nextId = 2
    /\ pc = [w \in Workers |-> IF w = 1 THEN "accurate" ELSE "idle"]
    /\ run = [w \in Workers |-> IF w = 1 THEN 1 ELSE 0]
    /\ crf_form \in [Workers -> WideCrfs]
    /\ crf_form[2] = 23
    /\ per_shot = [w \in Workers |-> w = 1]
    /\ detected \in [Workers -> WideSceneLists]
    /\ detected[2] = <<>>
    /\ scenes = [w \in Workers |-> IF w = 1 THEN ScenesOrWhole(detected[1]) ELSE <<>>]
    /\ scene_files = [w \in Workers |-> <<>>]
    /\ crf = [w \in Workers |-> 0]
    /\ removed = [w \in Workers |-> 0]
    /\ orig_size = [w \in Workers |-> 0]
    /\ comp_size = [w \in Workers |-> 0]
    /\ savings = [w \in Workers |-> Savings(0, 0)]
    /\ diag = [w \in Workers |-> NoDiag]
    /\ psnr = [w \in Workers |-> None]
    /\ ssim = [w \in Workers |-> None]
    /\ error = [w \in Workers |-> ""]
    /\ response = [w \in Workers |-> NoResponse]
    /\ calls = [w \in Workers |-> <<>>]

SceneNext == \E w \in SeqWorkers : AccurateSeek(w) \/ FastSeek(w)

SceneSpec == SceneInit /\ [][SceneNext]_vars

\* The end of encode alone, lines 223-239, from the states in which a
\* whole-file encode has just succeeded, for every pair of sizes up to
\* MaxSize and every outcome of the two comparison invocations.
WideSizes == 0..MaxSize

ResultInit ==
    /\ fs = [p \in Paths |->
                IF p = InputPath(1) THEN UploadFile(1)
                ELSE IF p = OutputPath(1) THEN Video(1, <<>>)
                ELSE NoFile]
    /\ nextId = 2
    /\ pc = [w \in Workers |-> IF w = 1 THEN "sizes" ELSE "idle"]
    /\ run = [w \in Workers |-> IF w = 1 THEN 1 ELSE 0]
    /\ crf_form \in [Workers -> BaseCrfs]
    /\ crf_form[2] = 23
    /\ per_shot = [w \in Workers |-> FALSE]
    /\ detected = [w \in Workers |-> <<>>]
    /\ scenes = [w \in Workers |-> <<>>]
    /\ scene_files = [w \in Workers |-> <<>>]
    /\ crf = [w \in Workers |-> 0]
    /\ removed = [w \in Workers |-> 0]
    /\ orig_size = [w \in Workers |-> 0]
    /\ comp_size = [w \in Workers |-> 0]
    /\ savings = [w \in Workers |-> Savings(0, 0)]
    /\ diag = [w \in Workers |-> NoDiag]
    /\ psnr = [w \in Workers |-> None]
    /\ ssim = [w \in Workers |-> None]
    /\ error = [w \in Workers |-> ""]
    /\ response = [w \in Workers |-> NoResponse]
    /\ calls = [w \in Workers |->
                   IF w = 1
                       THEN <<[tool |-> "whole", crf |-> crf_form[1],
                               out |-> OutputPath(1), ok |-> TRUE]>>
                       ELSE <<>>]

ResultNext ==
    \E w \in SeqWorkers :
        GetSizes(w, WideSizes) \/ Psnr(w, MetricOutcomes) \/ Ssim(w) \/ Respond(w)

ResultSpec == ResultInit /\ [][ResultNext]_vars

\* Two requests served by two threads at once, on a small range of inputs.
ConcCrfs == {23}
ConcSceneLists == {IntervalsFrom(0, d) : d \in {<<>>, <<6>>, <<6, 24>>}}
ConcSizes == {3}
ConcOutcomes == {RaiseOutcome, NumberField(9876)}

ConcStep(w) ==
    \/ Upload(w, ConcCrfs)
    \/ Detect(w, ConcSceneLists)
    \/ AccurateSeek(w)
    \/ FastSeek(w)
    \/ WriteManifest(w)
    \/ Concat(w)
    \/ RemoveScene(w)
    \/ WholeFile(w)
    \/ GetSizes(w, ConcSizes)
    \/ Psnr(w, ConcOutcomes)
    \/ Ssim(w)
    \/ Respond(w)
    \/ Fail(w)

ConcNext == \E w \in Workers : ConcStep(w)

ConcSpec == Init /\ [][ConcNext]_vars

\* ------------------------------------------------------------------ claims
Clamp(x) == Max(18, Min(35, x))

IsEncode(c) == c.tool = "encode"
IsFast(c) == c.tool = "encode" /\ c.seek = "fast"
IsAccurate(c) == c.tool = "encode" /\ c.seek = "accurate"
IsConcat(c) == c.tool = "concat"

\* The quality the claim expects for a duration d and a base quality q.
C1_Expected(d, q) ==
    IF d <= HalfSeconds(5) THEN Clamp(q - 2)
    ELSE IF d <= HalfSeconds(10) THEN Clamp(q + 2)
    ELSE Clamp(q + 4)

\* C1: for a segment with a bounded end and base quality q, both attempts of
\* encode_scene pass the quality clamp(q-2,18,35) for a duration d <= 5 s,
\* clamp(q+2,18,35) for 5 s < d <= 10 s and clamp(q+4,18,35) for d > 10 s;
\* q = 23 with durations 3, 7.5 and 12 s gives 21, 25 and 27.
C1_BoundedQuality ==
    /\ \A w \in Workers : \A n \in 1..Len(calls[w]) :
        (IsEncode(calls[w][n]) /\ calls[w][n].t # None)
            => calls[w][n].crf = C1_Expected(calls[w][n].t, crf_form[w])
    /\ \A w \in Workers :
        (/\ crf_form[w] = 23
         /\ detected[w] = IntervalsFrom(0, <<6, 15>>)
         /\ Len(calls[w]) = 4)
            => /\ calls[w][2].crf = 21
               /\ calls[w][4].crf = 25
    /\ SceneCrf(21, 45, 23) = 27

\* C1 witness: a fast-seek attempt on a second scene of exactly 10 s with base
\* quality 34 was handed the clamped quality 35, after the accurate attempt.
C1_Witness ==
    /\ Len(calls[1]) = 4
    /\ IsAccurate(calls[1][3]) /\ ~calls[1][3].ok
    /\ IsFast(calls[1][4])
    /\ calls[1][4].ss > 0
    /\ calls[1][4].t = HalfSeconds(10)
    /\ crf_form[1] = 34
    /\ calls[1][4].crf = 35

\* C2: for a segment with unbounded end the quality passed is clamp(q,18,35),
\* so every quality a per-scene run passes to the transcoder lies in [18,35].
C2_QualityInRange ==
    \A w \in Workers : \A n \in 1..Len(calls[w]) :
        IsEncode(calls[w][n])
            => /\ calls[w][n].crf \in 18..35
               /\ calls[w][n].t = None => calls[w][n].crf = Clamp(crf_form[w])

\* A fallback that succeeded, and the success of every other step.
FallbackUsed(w) ==
    \E n \in 1..(Len(calls[w]) - 1) :
        /\ IsAccurate(calls[w][n]) /\ ~calls[w][n].ok
        /\ IsFast(calls[w][n + 1]) /\ calls[w][n + 1].ok
        /\ calls[w][n + 1].out = calls[w][n].out

OtherStepsOk(w) ==
    /\ \A n \in 1..Len(calls[w]) :
        /\ IsFast(calls[w][n]) => calls[w][n].ok
        /\ IsConcat(calls[w][n]) => calls[w][n].ok
    /\ error[w] \notin {"detect_scenes", "os.remove", "os.path.getsize"}

HasSizes(r) ==
    /\ r.status = 200
    /\ {"original_size", "compressed_size", "savings_percent"} \subseteq DOMAIN r

\* C3: in a per-scene run in which an accurate-seek attempt exits nonzero, the
\* fast-seek attempt of the same segment succeeds and every other step
\* succeeds, the run does not fail: every segment is encoded, the segments
\* are concatenated and the result carries the sizes and the savings.
C3_FallbackCompletes ==
    \A w \in Workers :
        (per_shot[w] /\ FallbackUsed(w) /\ OtherStepsOk(w))
            => /\ pc[w] # "except"
               /\ pc[w] = "done"
                    => /\ HasSizes(response[w])
                       /\ Len(scene_files[w]) = Len(scenes[w])
                       /\ \E n \in 1..Len(calls[w]) :
                            IsConcat(calls[w][n]) /\ calls[w][n].ok

\* C3 witness: a finished run of two scenes whose first scene needed the
\* fallback.
C3_Witness ==
    /\ pc[1] = "done"
    /\ Len(scenes[1]) = 2
    /\ FallbackUsed(1)
    /\ IsAccurate(calls[1][1]) /\ ~calls[1][1].ok
    /\ response[1].status = 200

\* A segment both attempts failed for, and the segment files of a run.
BothAttemptsFailed(w) ==
    \E n \in 1..Len(calls[w]) : IsFast(calls[w][n]) /\ ~calls[w][n].ok

SegmentsOf(w) == {p \in Paths : fs[p].kind = "segment" /\ fs[p].run = run[w]}

\* C4: when both attempts have failed for a segment and the run has surfaced
\* the failure, every segment file the run wrote and the input copy are gone.
C4_FailureRemovesSegments ==
    \A w \in Workers :
        (pc[w] = "done" /\ BothAttemptsFailed(w))
            => /\ SegmentsOf(w) = {}
               /\ ~Exists(fs, InputPath(run[w]))

\* The entries are the outputs of the successful encodes of the intervals, in order.
EncodedFrom(w, path, interval) ==
    \E n \in 1..Len(calls[w]) :
        /\ IsEncode(calls[w][n]) /\ calls[w][n].ok
        /\ calls[w][n].out = path
        /\ calls[w][n].ss = interval.start
        /\ calls[w][n].t = SceneDuration(interval.start, interval.end)

InIntervalOrder(w, entries) ==
    /\ Len(entries) = Len(scenes[w])
    /\ \A n \in 1..Len(scenes[w]) :
        /\ entries[n] = ScenePath(n - 1)
        /\ EncodedFrom(w, entries[n], scenes[w][n])

ConcatSucceeded(w) ==
    \E n \in 1..Len(calls[w]) : IsConcat(calls[w][n]) /\ calls[w][n].ok

\* C6: after the concatenation of a per-scene run has succeeded and the run
\* has returned, with a result or a failure, none of the segment files that
\* run created exists.
C6_NoSegmentSurvives ==
    \A w \in Workers :
        (pc[w] = "done" /\ ConcatSucceeded(w)) => SegmentsOf(w) = {}

\* The run's detect_scenes returned an empty list.
EmptyDetection(w) ==
    /\ per_shot[w]
    /\ pc[w] \notin {"idle", "detect"}
    /\ error[w] # "detect_scenes"
    /\ detected[w] = <<>>

WholeInterval == [start |-> 0, end |-> None]

\* C7: a per-scene run whose detect_scenes returns an empty list is the run
\* of the single interval (0, unbounded): its scene list is that interval,
\* every segment encode starts at 0 with no duration and writes the first
\* segment file, the concatenation is of that one file, a result follows one
\* successful encode and one concatenation, and the run fails only when a
\* transcoder invocation fails.
C7_EmptyIsWholeFile ==
    \A w \in Workers :
        EmptyDetection(w)
            => /\ scenes[w] = <<WholeInterval>>
               /\ \A n \in 1..Len(calls[w]) :
                    /\ IsEncode(calls[w][n])
                        => /\ calls[w][n].ss = 0
                           /\ calls[w][n].t = None
                           /\ calls[w][n].out = ScenePath(0)
                           /\ n <= 2
                    /\ IsConcat(calls[w][n])
                        => /\ calls[w][n].list = <<ScenePath(0)>>
                           /\ n > 1
                           /\ IsEncode(calls[w][n - 1]) /\ calls[w][n - 1].ok
               /\ response[w].status = 200
                    => Cardinality({n \in 1..Len(calls[w]) :
                                       IsConcat(calls[w][n])}) = 1
               /\ response[w].status = 500
                    => \E n \in 1..Len(calls[w]) :
                           (IsEncode(calls[w][n]) \/ IsConcat(calls[w][n]))
                               /\ ~calls[w][n].ok

\* C7 witness: a run with an empty scene list has returned a result.
C7_Witness ==
    /\ EmptyDetection(1)
    /\ pc[1] = "done"
    /\ response[1].status = 200
    /\ IsAccurate(calls[1][1]) /\ calls[1][1].ok /\ IsConcat(calls[1][2])

\* C8, as claimed: the savings percent of a result is at most 100, equals
\* (1 - compressed/original)*100 when original > 0 and is 0 when original = 0.
C8_SavingsExact ==
    \A w \in Workers :
        response[w].status = 200
            => /\ response[w].savings_percent <= 10000
               /\ response[w].original_size > 0
                    => response[w].savings_percent * response[w].original_size
                         = (response[w].original_size - response[w].compressed_size) * 10000
               /\ response[w].original_size = 0 => response[w].savings_percent = 0

\* The distance between two numbers.
Abs(x) == IF x < 0 THEN -x ELSE x

\* C8, amended: the savings percent of a result is at most 100, is
\* (1 - compressed/original)*100 rounded to two decimal places (so within
\* 0.005 of it) when original > 0, and is 0 when original = 0.
C8_SavingsRounded ==
    \A w \in Workers :
        response[w].status = 200
            => /\ response[w].savings_percent <= 10000
               /\ response[w].original_size > 0
                    => 2 * Abs(response[w].savings_percent * response[w].original_size
                                 - (response[w].original_size
                                      - response[w].compressed_size) * 10000)
                         <= response[w].original_size
               /\ response[w].original_size = 0 => response[w].savings_percent = 0

\* C8 witness: a result for sizes 3 and 1 reports 66.67 percent.
C8_Witness ==
    /\ response[1].status = 200
    /\ response[1].original_size = 3
    /\ response[1].compressed_size = 1
    /\ response[1].savings_percent = 6667

\* C9: the two computations of calculate_metrics are independent: when the
\* PSNR invocation raises and the SSIM invocation would yield a parsable
\* field, SSIM is returned; when the SSIM invocation raises, a parsed PSNR is
\* still returned.
C9_MetricsIndependent ==
    \A w \in Workers :
        pc[w] = "respond"
            => /\ (diag[w].psnr.kind = "raise" /\ diag[w].ssim.field = "number")
                    => ssim[w] = diag[w].ssim.value
               /\ (diag[w].ssim.kind = "raise" /\ diag[w].psnr.field = "number")
                    => psnr[w] = diag[w].psnr.value

\* The metric invocations the run has made, and an outcome that yields no value.
MetricsStarted(w) == \E n \in 1..Len(calls[w]) : calls[w][n].tool = "psnr"
SsimStarted(w) == \E n \in 1..Len(calls[w]) : calls[w][n].tool = "ssim"
Unusable(o) == o.kind = "raise" \/ o.field # "number"

\* C10: a failure, timeout or unparsable output of a metric invocation never
\* aborts the run: once the encode path has succeeded and the metrics are
\* computed, the run returns a result with the sizes and the savings, the
\* affected metric is absent, and the input copy is still there.
C10_MetricFailureAbsorbed ==
    \A w \in Workers :
        MetricsStarted(w)
            => /\ pc[w] \in {"ssim", "respond", "done"}
               /\ error[w] = ""
               /\ Exists(fs, InputPath(run[w]))
               /\ pc[w] = "done"
                    => /\ HasSizes(response[w])
                       /\ Unusable(diag[w].psnr) => response[w].psnr = None
                       /\ (SsimStarted(w) /\ Unusable(diag[w].ssim))
                            => response[w].ssim = None

\* C10 witness: the PSNR invocation raised and the run returned a result.
C10_Witness ==
    /\ pc[1] = "done"
    /\ MetricsStarted(1)
    /\ diag[1].psnr.kind = "raise"
    /\ response[1].status = 200
    /\ response[1].psnr = None

\* A call of the whole-file encode.
IsWhole(c) == c.tool = "whole"

\* The run of w met one of the four failures that nothing recovers from:
\* scene detection, both attempts on a segment, concatenation, whole-file encode.
Unrecovered(w) ==
    \/ per_shot[w] /\ error[w] = "detect_scenes"
    \/ BothAttemptsFailed(w)
    \/ \E n \in 1..Len(calls[w]) : IsConcat(calls[w][n]) /\ ~calls[w][n].ok
    \/ \E n \in 1..Len(calls[w]) : IsWhole(calls[w][n]) /\ ~calls[w][n].ok

\* C11: a run that ends after a segmentation failure, a segment that failed
\* both attempts, a concatenation failure or a whole-file encode failure has
\* deleted its input copy and answers with a failure that carries no result
\* fields.
C11_FailureRemovesInput ==
    \A w \in Workers :
        pc[w] = "done" /\ Unrecovered(w)
            => /\ ~Exists(fs, InputPath(run[w]))
               /\ response[w].status = 500
               /\ DOMAIN response[w] = {"status", "error"}

\* A run ended after its concatenation failed.
C11_Witness ==
    /\ pc[1] = "done"
    /\ \E n \in 1..Len(calls[1]) : IsConcat(calls[1][n]) /\ ~calls[1][n].ok
    /\ response[1].status = 500

\* C12: a run that ended in failure has left neither its input copy nor its
\* output file behind.
C12_FailureRemovesOutput ==
    \A w \in Workers :
        pc[w] = "done" /\ response[w].status = 500
            => /\ ~Exists(fs, InputPath(run[w]))
               /\ ~Exists(fs, OutputPath(run[w]))

\* The request of w has started and has not answered yet.
Active(w) == pc[w] \notin {"idle", "done"}

\* The paths the run of w has written, read or removed so far: its input copy,
\* its output file, the segment files of its encode attempts and, once it has
\* written it, the manifest.
PathsUsed(w) ==
    {InputPath(run[w]), OutputPath(run[w])}
        \cup {calls[w][n].out : n \in {m \in 1..Len(calls[w]) : IsEncode(calls[w][m])}}
        \cup (IF \/ pc[w] \in {"concat", "remove"}
                 \/ \E n \in 1..Len(calls[w]) : IsConcat(calls[w][n])
                THEN {ConcatList}
                ELSE {})

\* C13: two runs that are in progress at the same time have no path in common.
C13_PathsNamespaced ==
    \A w1 \in Workers : \A w2 \in Workers \ {w1} :
        Active(w1) /\ Active(w2) => PathsUsed(w1) \cap PathsUsed(w2) = {}

\* The positions of the whole-file encodes in the calls of w.
WholeCalls(w) == {n \in 1..Len(calls[w]) : IsWhole(calls[w][n])}

\* C14: a request without the per-scene flag runs exactly one whole-file
\* encode, with the quality of the request unchanged and the run's output file
\* as target; it detects no scenes, derives no segment quality, runs no segment
\* encode and no concatenation, and writes no segment file and no manifest.
C14_WholeFileOnly ==
    \A w \in Workers :
        ~per_shot[w] /\ pc[w] # "idle"
            => /\ \A n \in 1..Len(calls[w]) :
                    ~IsEncode(calls[w][n]) /\ ~IsConcat(calls[w][n])
               /\ detected[w] = <<>> /\ scenes[w] = <<>> /\ scene_files[w] = <<>>
               /\ crf[w] = 0
               /\ WholeCalls(w) = IF pc[w] = "whole" THEN {} ELSE {1}
               /\ \A n \in WholeCalls(w) :
                    /\ calls[w][n].crf = crf_form[w]
                    /\ calls[w][n].out = OutputPath(run[w])
               /\ SegmentsOf(w) = {}
               /\ ~(fs[ConcatList].kind = "manifest" /\ fs[ConcatList].run = run[w])

\* A whole-file request has answered with a result, with a quality below 18,
\* after an earlier per-scene run left a manifest behind.
C14_Witness ==
    /\ ~per_shot[1]
    /\ pc[1] = "done"
    /\ response[1].status = 200
    /\ crf_form[1] = 10
    /\ run[1] = 2
    /\ fs[ConcatList].kind = "manifest"

\* Calls m and n of w are encode attempts on the same segment file.
SameSegment(w, m, n) ==
    /\ IsEncode(calls[w][m])
    /\ IsEncode(calls[w][n])
    /\ calls[w][m].out = calls[w][n].out

\* C15: the attempts on a segment follow AttemptAccurateSeek -> (Done |
\* AttemptFastSeek -> (Done | Failed)): a fast-seek attempt directly follows a
\* failed accurate-seek attempt on the same segment, a failed accurate-seek
\* attempt is followed by nothing but the fast-seek attempt, two attempts on
\* one segment are the accurate one and then the fast one (so each strategy
\* runs at most once and nothing follows a success), and the segment fails
\* only after both attempts failed.
C15_SegmentStateMachine ==
    \A w \in Workers :
        /\ \A n \in 1..Len(calls[w]) :
            /\ IsFast(calls[w][n])
                => /\ n > 1
                   /\ IsAccurate(calls[w][n - 1])
                   /\ ~calls[w][n - 1].ok
                   /\ SameSegment(w, n - 1, n)
            /\ IsAccurate(calls[w][n]) /\ ~calls[w][n].ok /\ n < Len(calls[w])
                => IsFast(calls[w][n + 1])
            /\ \A m \in 1..(n - 1) :
                SameSegment(w, m, n)
                    => /\ m = n - 1
                       /\ IsAccurate(calls[w][m])
                       /\ ~calls[w][m].ok
                       /\ IsFast(calls[w][n])
        /\ pc[w] = "fast"
            => /\ calls[w] # <<>>
               /\ IsAccurate(calls[w][Len(calls[w])])
               /\ ~calls[w][Len(calls[w])].ok
        /\ error[w] = "encode_scene:fast_seek"
            => /\ Len(calls[w]) >= 2
               /\ IsFast(calls[w][Len(calls[w])])
               /\ ~calls[w][Len(calls[w])].ok
               /\ IsAccurate(calls[w][Len(calls[w]) - 1])
               /\ ~calls[w][Len(calls[w]) - 1].ok

\* The first segment was recovered by the fast-seek attempt and the second
\* one failed both attempts.
C15_Witness ==
    /\ Len(calls[1]) = 4
    /\ IsFast(calls[1][2]) /\ calls[1][2].ok
    /\ IsFast(calls[1][4]) /\ ~calls[1][4].ok
    /\ error[1] = "encode_scene:fast_seek"
    /\ pc[1] = "done"

\* C16: when both attempts on a segment failed, the failure the run answers
\* with is the one of the accurate-seek attempt.
C16_OriginalFailureSurfaced ==
    \A w \in Workers :
        response[w].status = 500 /\ BothAttemptsFailed(w)
            => response[w].error = "encode_scene:accurate_seek"

\* The segment of call n of w: the index held by the name of its output file.
SegmentOf(w, n) == calls[w][n].out.n

\* C17: the segments of a run are encoded one after the other in interval
\* order, each one only after the one before it succeeded, and after a segment
\* failed both attempts the run makes no further call: no later segment is
\* encoded, nothing is concatenated and no metric is computed.
C17_StopsAtFirstFailure ==
    \A w \in Workers :
        \A n \in 1..Len(calls[w]) :
            /\ IsEncode(calls[w][n]) /\ n > 1
                => /\ IsEncode(calls[w][n - 1])
                   /\ IF calls[w][n - 1].ok
                         THEN SegmentOf(w, n) = SegmentOf(w, n - 1) + 1
                         ELSE SegmentOf(w, n) = SegmentOf(w, n - 1)
            /\ IsEncode(calls[w][n]) /\ n = 1 => SegmentOf(w, n) = 0
            /\ IsFast(calls[w][n]) /\ ~calls[w][n].ok
                => /\ n = Len(calls[w])
                   /\ pc[w] \in {"except", "done"}
                   /\ pc[w] = "done" => response[w].status = 500
            /\ IsConcat(calls[w][n])
                => /\ n > 1
                   /\ IsEncode(calls[w][n - 1])
                   /\ calls[w][n - 1].ok
                   /\ SegmentOf(w, n - 1) = Len(scenes[w]) - 1

\* The first segment was encoded, the second one failed both attempts and the
\* run has answered.
C17_Witness ==
    /\ Len(scenes[1]) = 2
    /\ Len(calls[1]) = 3
    /\ IsAccurate(calls[1][1]) /\ calls[1][1].ok
    /\ IsFast(calls[1][3]) /\ ~calls[1][3].ok
    /\ pc[1] = "done"

\* C18: when the concatenation is about to run, the manifest is the one the
\* current run wrote and every path in it holds a file that was last written
\* by a successful encode attempt of the current run, whatever earlier runs
\* left in the scenes folder.
C18_ManifestIsFresh ==
    \A w \in Workers :
        pc[w] = "concat"
            => /\ fs[ConcatList].kind = "manifest"
               /\ fs[ConcatList].run = run[w]
               /\ \A n \in 1..Len(fs[ConcatList].entries) :
                    /\ fs[fs[ConcatList].entries[n]].kind = "segment"
                    /\ fs[fs[ConcatList].entries[n]].run = run[w]
                    /\ fs[fs[ConcatList].entries[n]].ok

\* The second run, of one segment, is about to concatenate while the second
\* segment file of the first run, which failed, is still in the folder.
C18_Witness ==
    /\ run[1] = 2
    /\ pc[1] = "concat"
    /\ Len(scene_files[1]) = 1
    /\ fs[ScenePath(1)].kind = "segment"
    /\ fs[ScenePath(1)].run = 1
    /\ ~fs[ScenePath(1)].ok

\* The output of a run of w whose concatenation joined its own segments.
OwnOutput(w) ==
    Video(run[w], [n \in 1..Len(scenes[w]) |-> Segment(run[w], n - 1)])

\* C19: whatever another run does meanwhile, a per-scene run that answers
\* with a result has an output joined from exactly its own segments, in
\* order, and no per-scene run fails on removing a segment file.
C19_OwnSegmentsOnly ==
    \A w \in Workers :
        per_shot[w]
            => /\ response[w].status = 200 => fs[OutputPath(run[w])] = OwnOutput(w)
               /\ error[w] # "os.remove"

\* The value calculate_metrics scans from the PSNR text of w, None if none.
ParsedPsnr(w) == ScanMetric(diag[w].psnr).value

\* The value calculate_metrics scans from the SSIM text of w, None if none;
\* the SSIM command is not run when the PSNR part raised.
ParsedSsim(w) ==
    IF ScanMetric(diag[w].psnr).raises THEN None ELSE ScanMetric(diag[w].ssim).value

\* The reported value is absent exactly when nothing was parsed and is
\* otherwise the parsed value at the precision of the result.
Reported(shown, parsed, unit) ==
    /\ shown # None <=> parsed # None
    /\ shown # None => 2 * Abs(shown - parsed) <= unit

\* C20: in a returned result a metric is present exactly when its labeled
\* field was parsed, zero included, and then holds the parsed value.
C20_ParsedMetricPresent ==
    \A w \in Workers :
        response[w].status = 200
            => /\ Reported(response[w].psnr, ParsedPsnr(w), 100)
               /\ Reported(response[w].ssim, ParsedSsim(w), 10)

====
